---- MODULE Spec2Model ----
(***************************************************************************)
(* Construction and client-driven execution of the DPG graph builders of   *)
(* rlcomp/dpg.py: DPG, RecurrentDPG and PointerNetDPG.                     *)
(*                                                                         *)
(* A variable name "dpg/policy_track/l1/W" is a sequence of components,    *)
(* and a component is a sequence of word tokens, so that the substring     *)
(* tests of the source ("policy/" in var.name) and the prefix tests of the *)
(* tracking update keep their meaning: "policy_track" is the component     *)
(* <<"policy", "_track">> and "rnn_decoder" is <<"rnn_", "decoder">>.      *)
(* Python's reuse=None is the boolean FALSE here.                          *)
(***************************************************************************)
EXTENDS Integers, Sequences, FiniteSets, TLC

VARIABLES cfg, pc, err, phases, variables, placeholders, ops, attrs,
          scope_log, a_pred, a_explore, decoder_states, critic_on,
          critic_off, critic_on_seq, critic_off_seq, q_targets,
          policy_params, critic_params, policy_objective, critic_objective,
          track_update, value, last_tau, n_grad, n_track

vars == <<cfg, pc, err, phases, variables, placeholders, ops, attrs,
          scope_log, a_pred, a_explore, decoder_states, critic_on,
          critic_off, critic_on_seq, critic_off_seq, q_targets,
          policy_params, critic_params, policy_objective, critic_objective,
          track_update, value, last_tau, n_grad, n_track>>

(***************************************************************************)
(* Bounds of the model.                                                    *)
(***************************************************************************)
MaxSeqLength == 2

MaxWidth == 2

MaxGradSteps == 2

MaxTrackSteps == 2

(***************************************************************************)
(* Exact rational arithmetic for parameter values: <<numerator,            *)
(* denominator>> in lowest terms with a positive denominator.              *)
(***************************************************************************)
RECURSIVE GCD(_, _)
GCD(a, b) == IF b = 0 THEN a ELSE GCD(b, a % b)

Abs(n) == IF n < 0 THEN 0 - n ELSE n

RNorm(r) ==
    LET g == GCD(Abs(r[1]), r[2])
    IN  <<r[1] \div g, r[2] \div g>>

RAdd(x, y) == RNorm(<<x[1] * y[2] + y[1] * x[2], x[2] * y[2]>>)

RSub(x, y) == RNorm(<<x[1] * y[2] - y[1] * x[2], x[2] * y[2]>>)

RMul(x, y) == RNorm(<<x[1] * y[1], x[2] * y[2]>>)

RAbs(x) == <<Abs(x[1]), x[2]>>

RLeq(x, y) == x[1] * y[2] <= y[1] * x[2]

ROne == <<1, 1>>

RZero == <<0, 1>>

(***************************************************************************)
(* Name scopes.                                                            *)
(***************************************************************************)
DefaultName == <<"dpg">>

PolicyScope == <<"policy">>

PolicyTrackScope == <<"policy", "_track">>

CriticScope == <<"critic">>

CriticTrackScope == <<"critic", "_track">>

RnnDecoderScope == <<"rnn_", "decoder">>

PolicyRNNCellScope == <<"PolicyRNNCell">>

GRUCellScope == <<"GRUCell">>

EncoderScope == <<"encoder">>

DecoderScope == <<"decoder">>

BnScope == <<"bn">>

\* word + "/" in var.name: some component other than the last ends in word.
NameContains(name, word) ==
    \E i \in 1..(Len(name) - 1) : name[i][Len(name[i])] = word

\* var.name.startswith(prefix + "/")
NameStartsWith(name, prefix) ==
    /\ Len(name) > Len(prefix)
    /\ SubSeq(name, 1, Len(prefix)) = prefix

\* name.replace(main + "/", track + "/") for a name that starts with main
ReplacePrefix(name, main, track) ==
    track \o SubSeq(name, Len(main) + 1, Len(name))

(***************************************************************************)
(* The variable store of the graph under construction.  g is a record      *)
(* [variables, log, err]: the variables created so far (tf.all_variables), *)
(* the log of variable-scope requests, and the pending exception.  Once    *)
(* g.err is set, every later call leaves g alone: the exception unwinds.   *)
(***************************************************************************)
NoError == "none"

Event(net, scope, reuse, created, site, t) ==
    [net |-> net, scope |-> scope, reuse |-> reuse, created |-> created,
     site |-> site, t |-> t]

\* tf.get_variable for every leaf of one network under one scope: with reuse
\* the variables must exist, without it they must not.
GetVariables(g, scope, leaves, reuse, net, site, t) ==
    LET names == {scope \o leaf : leaf \in leaves}
    IN  IF g.err # NoError THEN g
        ELSE IF reuse /\ ~(names \subseteq g.variables)
               THEN [g EXCEPT !.err = "ValueError"]
        ELSE IF ~reuse /\ names \cap g.variables # {}
               THEN [g EXCEPT !.err = "ValueError"]
        ELSE [variables |-> g.variables \cup names,
              log |-> Append(g.log, Event(net, scope, reuse, ~reuse, site, t)),
              err |-> g.err]

LayerTok == <<"l1", "l2", "l3", "l4">>

\* util.mlp: one weight per layer, one bias per hidden layer, and a bias on
\* the output layer when bias_output is set.
MlpLeaves(hidden, bias_output) ==
    LET n == Len(hidden)
    IN  {<<<<LayerTok[i]>>, <<"W">>>> : i \in 1..(n + 1)}
        \cup {<<<<LayerTok[i]>>, <<"b">>>> : i \in 1..n}
        \cup (IF bias_output THEN {<<<<LayerTok[n + 1]>>, <<"b">>>>} ELSE {})

\* util.mlp with track_scope: the layers are created as the tracked
\* counterparts of the layers of track_scope, which must exist.
Mlp(g, scope, hidden, bias_output, reuse, track_scope, net, site, t) ==
    LET leaves == MlpLeaves(hidden, bias_output)
    IN  IF g.err # NoError THEN g
        ELSE IF track_scope # <<>>
                /\ ~({track_scope \o leaf : leaf \in leaves} \subseteq g.variables)
               THEN [g EXCEPT !.err = "ValueError"]
        ELSE GetVariables(g, scope, leaves, reuse, net, site, t)

\* The GRU cell of tensorflow.models.rnn.rnn_cell: two linear maps.
GRULeaves ==
    {<<<<"Gates">>, <<"Linear">>, <<"Matrix">>>>,
     <<<<"Gates">>, <<"Linear">>, <<"Bias">>>>,
     <<<<"Candidate">>, <<"Linear">>, <<"Matrix">>>>,
     <<<<"Candidate">>, <<"Linear">>, <<"Bias">>>>}

GRUCell(g, scope, reuse, site, t) ==
    GetVariables(g, Append(scope, GRUCellScope), GRULeaves, reuse, "cell", site, t)

\* policy_model: tf.variable_scope(name, reuse=reuse) inside the scope
\* `scope`, whose own reuse flag is inherited when reuse is None.
policy_model(g, scope, inherited, policy_dims, name, reuse, track_scope, site, t) ==
    Mlp(g, Append(scope, name), policy_dims, FALSE, reuse \/ inherited,
        track_scope, "policy", site, t)

critic_model(g, scope, inherited, critic_dims, name, reuse, track_scope, site, t) ==
    Mlp(g, Append(scope, name), critic_dims, TRUE, reuse \/ inherited,
        track_scope, "critic", site, t)

(***************************************************************************)
(* Tensors are <<kind, t>>; a critic value is the pair <<state, action>>   *)
(* it was evaluated on.  A handle that holds one tensor in the source is a *)
(* list of one tensor here.                                                *)
(***************************************************************************)
Tensor(kind, t) == <<kind, t>>

TensorList(kind, n) == [t \in 1..n |-> Tensor(kind, t)]

\* noise_gaussian: one noised tensor per action tensor, same positions.
noise_gaussian(actions) == [t \in 1..Len(actions) |-> Tensor("a_explore", actions[t][2])]

Min(a, b) == IF a < b THEN a ELSE b

\* zip(xs, ys)
Zip(xs, ys) == [t \in 1..Min(Len(xs), Len(ys)) |-> <<xs[t], ys[t]>>]

(***************************************************************************)
(* RecurrentDPG: the policy cell, the unrolled decoder and the critic.     *)
(***************************************************************************)
\* PolicyRNNCell.__call__: the wrapped cell, then policy_model under the
\* scope "PolicyRNNCell"; both inherit the reuse flag of the calling scope.
PolicyRNNCell_call(g, scope, inherited, policy_dims, site, t) ==
    policy_model(GRUCell(g, scope, inherited, site, t),
                 Append(scope, PolicyRNNCellScope), inherited, policy_dims,
                 PolicyScope, FALSE, <<>>, site, t)

\* seq2seq.rnn_decoder: under the scope "rnn_decoder", one call of the cell
\* per decoder input, reusing variables from the second call on; returns
\* the outputs and the states, the initial state first.
RECURSIVE RnnDecoderLoop(_, _, _, _, _)
RnnDecoderLoop(g, scope, policy_dims, i, n) ==
    IF i > n THEN g
    ELSE RnnDecoderLoop(
             PolicyRNNCell_call(g, Append(scope, RnnDecoderScope), i > 1,
                                policy_dims, "rollout", i),
             scope, policy_dims, i + 1, n)

rnn_decoder(g, scope, policy_dims, n) ==
    [g |-> RnnDecoderLoop(g, scope, policy_dims, 1, n),
     outputs |-> TensorList("a_pred", n),
     states |-> <<Tensor("dec_state", 0)>> \o TensorList("dec_state", n)]

\* The state list with the initial state kept.
DropInitState_Keep(states) == states

\* self.decoder_states[1:]
DropInitState(states) == SubSeq(states, 2, Len(states))

\* reuse_t = reuse, without the timestep test
ReuseAt_NoTimestep(reuse, t) == reuse

\* reuse_t = (reuse or t > 0) or None, t counted from 0 in the source
ReuseAt(reuse, t) == reuse \/ t > 1

\* RecurrentDPG._critic: critic_model on every zipped (state, action) pair.
RECURSIVE CriticLoop(_, _, _, _, _, _, _)
CriticLoop(g, scope, critic_dims, pairs, reuse, site, t) ==
    IF t > Len(pairs) THEN g
    ELSE CriticLoop(
             critic_model(g, scope, FALSE, critic_dims, CriticScope,
                          ReuseAt(reuse, t), <<>>, site, t),
             scope, critic_dims, pairs, reuse, site, t + 1)

RecurrentDPG_critic(g, scope, critic_dims, states_list, actions_list, reuse, site) ==
    LET pairs == Zip(states_list, actions_list)
    IN  [g |-> CriticLoop(g, scope, critic_dims, pairs, reuse, site, 1),
         scores |-> pairs]

(***************************************************************************)
(* PointerNetDPG: encoder, pointer-network decoder and the critic.         *)
(***************************************************************************)
\* rnn.rnn under scope "encoder": one call of the cell per input, reusing
\* variables from the second call on.
RECURSIVE EncoderLoop(_, _, _, _)
EncoderLoop(g, scope, i, n) ==
    IF i > n THEN g
    ELSE EncoderLoop(GRUCell(g, Append(scope, EncoderScope), i > 1, "encoder", i),
                     scope, i + 1, n)

\* rlcomp.pointer_network.ptr_net_decoder under scope "decoder": one call of
\* the cell per decoder input; returns the outputs, the states (the initial
\* state first) and the inputs it computed.
RECURSIVE PtrDecoderLoop(_, _, _, _)
PtrDecoderLoop(g, scope, i, n) ==
    IF i > n THEN g
    ELSE PtrDecoderLoop(GRUCell(g, Append(scope, DecoderScope), i > 1, "decoder", i),
                        scope, i + 1, n)

ptr_net_decoder(g, scope, n) ==
    [g |-> PtrDecoderLoop(g, scope, 1, n),
     outputs |-> TensorList("a_pred", n),
     states |-> <<Tensor("dec_state", 0)>> \o TensorList("dec_state", n),
     inputs |-> TensorList("dec_input", n)]

\* PointerNetDPG._critic: the state of timestep t is the concatenation of
\* the decoder input and the decoder state of that timestep.
PointerNetDPG_critic(g, scope, critic_dims, dec_inputs, dec_states, actions_lst, reuse, site) ==
    LET states_lst == Zip(dec_inputs, dec_states)
        pairs == Zip(states_lst, actions_lst)
    IN  [g |-> CriticLoop(g, scope, critic_dims, pairs, reuse, site, 1),
         scores |-> pairs]

(***************************************************************************)
(* Configurations: the arguments of the constructors.                      *)
(***************************************************************************)
PolicyDimsSet == {<<w>> : w \in 1..MaxWidth} \cup {<<MaxWidth, 1>>}

CriticDimsSet == {<<1>>, <<1, 1>>}

StateDims == 1..(2 * MaxWidth)

\* A RecurrentDPG applies policy and critic to the decoder state, of width
\* policy_dims[0]; its configurations have state_dim equal to that width.
Configs ==
    {c \in [cls : {"DPG", "RecurrentDPG", "PointerNetDPG"},
            loop_overridden : BOOLEAN,
            bn_actions : BOOLEAN,
            state_dim : StateDims,
            policy_dims : PolicyDimsSet,
            critic_dims : CriticDimsSet,
            seq_length : 1..MaxSeqLength,
            q_targets_given : BOOLEAN] :
        /\ c.cls = "DPG" => ~c.loop_overridden /\ ~c.bn_actions /\ c.seq_length = 1
        /\ c.cls = "RecurrentDPG" => ~c.bn_actions /\ c.state_dim = c.policy_dims[1]
        /\ c.cls = "PointerNetDPG" => c.loop_overridden}

\* tf.variable_scope(self.name): the scope every phase runs in
Name == <<DefaultName>>

PhaseOrder == <<"params", "inputs", "graph", "objectives", "updates">>

Init ==
    /\ cfg \in Configs
    /\ pc = "new"
    /\ err = NoError
    /\ phases = <<>>
    /\ variables = {}
    /\ placeholders = {}
    /\ ops = {}
    /\ attrs = {}
    /\ scope_log = <<>>
    /\ a_pred = <<>>
    /\ a_explore = <<>>
    /\ decoder_states = <<>>
    /\ critic_on = <<>>
    /\ critic_off = <<>>
    /\ critic_on_seq = <<>>
    /\ critic_off_seq = <<>>
    /\ q_targets = <<>>
    /\ policy_params = {}
    /\ critic_params = {}
    /\ policy_objective = <<>>
    /\ critic_objective = <<>>
    /\ track_update = {}
    /\ value = <<>>
    /\ last_tau = RZero
    /\ n_grad = 0
    /\ n_track = 0

graph_vars == <<variables, scope_log, a_pred, a_explore, decoder_states,
                critic_on, critic_off, critic_on_seq, critic_off_seq>>

run_vars == <<track_update, last_tau, n_grad, n_track>>

param_vars == <<policy_params, critic_params, policy_objective,
                critic_objective>>

\* bn_gamma starts at 1.0, bn_beta and the networks' weights at 0.
InitialValue(name) ==
    IF name = Name \o <<BnScope, <<"gamma">>>> THEN ROne ELSE RZero

ExtendValue(val, vs) ==
    [v \in vs |-> IF v \in DOMAIN val THEN val[v] ELSE InitialValue(v)]

G0 == [variables |-> variables, log |-> scope_log, err |-> NoError]

\* The assertion without the doubling.
StateDimAssertion_NoDoubling(c) == c.state_dim = c.policy_dims[1]

\* assert mdp.state_dim == spec.policy_dims[0] * 2
StateDimAssertion(c) == c.state_dim = c.policy_dims[1] * 2

\* __init__ up to the variable scope of the instance: the attributes are
\* stored, q_targets as given (None when not given: one tensor, or one per
\* timestep for a PointerNetDPG); inputs and tau are left to the inputs
\* phase.
Construct ==
    /\ pc = "new"
    /\ IF cfg.cls = "PointerNetDPG" /\ ~StateDimAssertion(cfg)
         THEN /\ pc' = "failed"
              /\ err' = "AssertionError"
              /\ UNCHANGED <<attrs, q_targets>>
         ELSE /\ pc' = "params"
              /\ err' = err
              /\ attrs' = IF cfg.q_targets_given THEN {"q_targets"} ELSE {}
              /\ q_targets' = IF cfg.q_targets_given
                                THEN TensorList("q_targets_given",
                                       IF cfg.cls = "PointerNetDPG"
                                         THEN cfg.seq_length ELSE 1)
                                ELSE <<>>
    /\ UNCHANGED <<cfg, phases, placeholders, ops, graph_vars, param_vars,
                   run_vars, value>>

DPG_make_params ==
    /\ pc = "params"
    /\ cfg.cls \in {"DPG", "RecurrentDPG"}
    /\ phases' = Append(phases, "params")
    /\ pc' = "inputs"
    /\ UNCHANGED <<cfg, err, placeholders, ops, attrs, graph_vars, q_targets,
                   param_vars, run_vars, value>>

BnParams == {Name \o <<BnScope, <<"beta">>>>, Name \o <<BnScope, <<"gamma">>>>}

PointerNetDPG_make_params ==
    /\ pc = "params"
    /\ cfg.cls = "PointerNetDPG"
    /\ phases' = Append(phases, "params")
    /\ pc' = "inputs"
    /\ IF cfg.bn_actions
         THEN /\ variables' = variables \cup BnParams
              /\ attrs' = attrs \cup {"bn_beta", "bn_gamma"}
              /\ ops' = ops \cup {Tensor("bn_beta.mean", 0), Tensor("bn_gamma.mean", 0)}
         ELSE UNCHANGED <<variables, attrs, ops>>
    /\ value' = ExtendValue(value, variables')
    /\ UNCHANGED <<cfg, err, placeholders, scope_log, a_pred, a_explore,
                   decoder_states, critic_on, critic_off, critic_on_seq,
                   critic_off_seq, q_targets, param_vars, run_vars>>

DPG_make_inputs ==
    /\ pc = "inputs"
    /\ cfg.cls = "DPG"
    /\ phases' = Append(phases, "inputs")
    /\ pc' = "graph"
    /\ placeholders' = placeholders
         \cup (IF "inputs" \in attrs THEN {} ELSE {Tensor("inputs", 0)})
         \cup (IF "q_targets" \in attrs THEN {} ELSE {Tensor("q_targets", 0)})
         \cup {Tensor("tau", 0)}
    /\ q_targets' = IF "q_targets" \in attrs THEN q_targets
                    ELSE <<Tensor("q_targets", 0)>>
    /\ attrs' = attrs \cup {"inputs", "q_targets", "tau"}
    /\ UNCHANGED <<cfg, err, ops, graph_vars, param_vars, run_vars, value>>

RecurrentDPG_make_inputs ==
    /\ pc = "inputs"
    /\ cfg.cls = "RecurrentDPG"
    /\ phases' = Append(phases, "inputs")
    /\ pc' = "graph"
    /\ placeholders' = placeholders
         \cup (IF "inputs" \in attrs THEN {} ELSE {Tensor("inputs", 0)})
         \cup (IF "q_targets" \in attrs THEN {} ELSE {Tensor("q_targets", 0)})
         \cup {Tensor("tau", 0), Tensor("dec_state_ind", 0), Tensor("dec_action_ind", 0)}
    /\ q_targets' = IF "q_targets" \in attrs THEN q_targets
                    ELSE <<Tensor("q_targets", 0)>>
    /\ attrs' = attrs \cup {"inputs", "q_targets", "tau", "decoder_state_ind",
                            "decoder_action_ind"}
    /\ UNCHANGED <<cfg, err, ops, graph_vars, param_vars, run_vars, value>>

PointerNetDPG_make_inputs ==
    /\ pc = "inputs"
    /\ cfg.cls = "PointerNetDPG"
    /\ phases' = Append(phases, "inputs")
    /\ pc' = "graph"
    /\ placeholders' = placeholders
         \cup (IF "inputs" \in attrs THEN {}
               ELSE {Tensor("inputs", t) : t \in 1..cfg.seq_length})
         \cup {Tensor("tau", 0)}
    /\ attrs' = attrs \cup {"inputs", "tau"}
    /\ UNCHANGED <<cfg, err, ops, graph_vars, q_targets, param_vars, run_vars,
                   value>>

(***************************************************************************)
(* The graph phase.                                                        *)
(***************************************************************************)
\* DPG._make_graph
DPG_graph(g, c) ==
    LET pred == <<Tensor("a_pred", 0)>>
        explore == noise_gaussian(pred)
        inp == Tensor("inputs", 0)
        g1 == policy_model(g, Name, FALSE, c.policy_dims, PolicyScope, FALSE,
                           <<>>, "on", 1)
        g2 == critic_model(g1, Name, FALSE, c.critic_dims, CriticScope, FALSE,
                           <<>>, "on", 1)
        g3 == critic_model(g2, Name, FALSE, c.critic_dims, CriticScope, TRUE,
                           <<>>, "off", 1)
        g4 == policy_model(g3, Name, FALSE, c.policy_dims, PolicyTrackScope,
                           FALSE, Append(Name, PolicyScope), "track", 1)
        g5 == critic_model(g4, Name, FALSE, c.critic_dims, CriticTrackScope,
                           FALSE, Append(Name, CriticScope), "track", 1)
    IN  [g |-> g5, a_pred |-> pred, a_explore |-> explore,
         critic_on |-> <<<<inp, pred[1]>>>>,
         critic_off |-> <<<<inp, explore[1]>>>>]

DPG_make_graph ==
    /\ pc = "graph"
    /\ cfg.cls = "DPG"
    /\ phases' = Append(phases, "graph")
    /\ LET r == DPG_graph(G0, cfg)
       IN  /\ variables' = r.g.variables
           /\ scope_log' = r.g.log
           /\ value' = ExtendValue(value, r.g.variables)
           /\ IF r.g.err # NoError
                THEN /\ pc' = "failed"
                     /\ err' = r.g.err
                     /\ UNCHANGED <<a_pred, a_explore, critic_on, critic_off,
                                    attrs, ops>>
                ELSE /\ pc' = "objectives"
                     /\ err' = err
                     /\ a_pred' = r.a_pred
                     /\ a_explore' = r.a_explore
                     /\ critic_on' = r.critic_on
                     /\ critic_off' = r.critic_off
                     /\ attrs' = attrs \cup {"a_pred", "a_explore", "critic_on",
                                             "critic_off", "a_pred_track",
                                             "critic_on_track"}
                     /\ ops' = ops \cup {r.a_pred[1], r.a_explore[1],
                                         Tensor("critic_on", 0),
                                         Tensor("critic_off", 0),
                                         Tensor("a_pred_track", 0),
                                         Tensor("critic_on_track", 0)}
    /\ UNCHANGED <<cfg, placeholders, decoder_states, critic_on_seq,
                   critic_off_seq, q_targets, param_vars, run_vars>>

\* A graph phase that stores the rollout's values as critic_on and
\* critic_off, the way PointerNetDPG._make_graph does.
RecurrentDPG_graph_RolloutAsCritic(g, c) ==
    LET dec == rnn_decoder(g, Name, c.policy_dims, c.seq_length)
        states == DropInitState(dec.states)
        pred == dec.outputs
        explore == noise_gaussian(pred)
        on == RecurrentDPG_critic(dec.g, Name, c.critic_dims, states, pred,
                                  FALSE, "on")
        off == RecurrentDPG_critic(on.g, Name, c.critic_dims, states, explore,
                                   TRUE, "off")
    IN  [g |-> off.g, a_pred |-> pred, a_explore |-> explore,
         decoder_states |-> states,
         critic_on_seq |-> on.scores, critic_off_seq |-> off.scores,
         critic_on |-> on.scores,
         critic_off |-> off.scores]

\* RecurrentDPG._make_graph after the loop function has been obtained.
RecurrentDPG_graph(g, c) ==
    LET dec == rnn_decoder(g, Name, c.policy_dims, c.seq_length)
        states == DropInitState(dec.states)
        pred == dec.outputs
        explore == noise_gaussian(pred)
        on == RecurrentDPG_critic(dec.g, Name, c.critic_dims, states, pred,
                                  FALSE, "on")
        off == RecurrentDPG_critic(on.g, Name, c.critic_dims, states, explore,
                                   TRUE, "off")
        gi == PolicyRNNCell_call(off.g, Name, FALSE, c.policy_dims, "ind", 1)
        pred_ind == <<Tensor("a_pred_ind", 0)>>
        explore_ind == noise_gaussian(pred_ind)
        state_ind == Tensor("dec_state_ind", 0)
        g_on == critic_model(gi, Name, FALSE, c.critic_dims, CriticScope, TRUE,
                             <<>>, "ind_on", 1)
        g_off == critic_model(g_on, Name, FALSE, c.critic_dims, CriticScope,
                              TRUE, <<>>, "ind_off", 1)
    IN  [g |-> g_off, a_pred |-> pred, a_explore |-> explore,
         decoder_states |-> states,
         critic_on_seq |-> on.scores, critic_off_seq |-> off.scores,
         critic_on |-> <<<<state_ind, pred_ind[1]>>>>,
         critic_off |-> <<<<state_ind, explore_ind[1]>>>>]

\* An abstract method that returns instead of raising.
LoopFunctionRaises_Never(c) == FALSE

\* RecurrentDPG._loop_function raises unless a subclass overrides it.
LoopFunctionRaises(c) == c.cls = "RecurrentDPG" /\ ~c.loop_overridden

RecurrentDPG_make_graph ==
    /\ pc = "graph"
    /\ cfg.cls = "RecurrentDPG"
    /\ phases' = Append(phases, "graph")
    /\ IF LoopFunctionRaises(cfg)
         THEN /\ pc' = "failed"
              /\ err' = "NotImplementedError"
              /\ ops' = ops \cup {Tensor("zeros", t) : t \in 1..cfg.seq_length}
              /\ UNCHANGED <<graph_vars, attrs, value>>
         ELSE LET r == RecurrentDPG_graph(G0, cfg)
              IN  /\ variables' = r.g.variables
                  /\ scope_log' = r.g.log
                  /\ value' = ExtendValue(value, r.g.variables)
                  /\ IF r.g.err # NoError
                       THEN /\ pc' = "failed"
                            /\ err' = r.g.err
                            /\ UNCHANGED <<a_pred, a_explore, decoder_states,
                                           critic_on, critic_off, critic_on_seq,
                                           critic_off_seq, attrs, ops>>
                       ELSE /\ pc' = "objectives"
                            /\ err' = err
                            /\ a_pred' = r.a_pred
                            /\ a_explore' = r.a_explore
                            /\ decoder_states' = r.decoder_states
                            /\ critic_on' = r.critic_on
                            /\ critic_off' = r.critic_off
                            /\ critic_on_seq' = r.critic_on_seq
                            /\ critic_off_seq' = r.critic_off_seq
                            /\ attrs' = attrs \cup {"a_pred", "a_explore",
                                   "decoder_states", "critic_on", "critic_off",
                                   "critic_on_seq", "critic_off_seq"}
                            /\ ops' = ops
                                 \cup {Tensor("zeros", t) : t \in 1..cfg.seq_length}
                                 \cup {r.a_pred[t] : t \in 1..Len(r.a_pred)}
                                 \cup {r.a_explore[t] : t \in 1..Len(r.a_explore)}
                                 \cup {Tensor("a_pred_ind", 0), Tensor("a_explore", 0),
                                       Tensor("critic_on", 0), Tensor("critic_off", 0)}
    /\ UNCHANGED <<cfg, placeholders, q_targets, param_vars, run_vars>>

\* A graph phase that leaves q_targets as it found them.
PointerNetDPG_make_q_targets_Skipped(targets, defined, n) == targets

\* PointerNetDPG._make_q_targets: if not self.q_targets
PointerNetDPG_make_q_targets(targets, defined, n) ==
    IF defined THEN targets ELSE TensorList("q_targets", n)

\* PointerNetDPG._make_graph
PointerNetDPG_graph(g, c) ==
    LET ge == EncoderLoop(g, Name, 1, c.seq_length)
        dec == ptr_net_decoder(ge, Name, c.seq_length)
        states == DropInitState(dec.states)
        pred == IF c.bn_actions THEN TensorList("a_pred_bn", c.seq_length)
                ELSE dec.outputs
        explore == noise_gaussian(pred)
        on == PointerNetDPG_critic(dec.g, Name, c.critic_dims, dec.inputs,
                                   states, pred, FALSE, "on")
        off == PointerNetDPG_critic(on.g, Name, c.critic_dims, dec.inputs,
                                    states, explore, TRUE, "off")
    IN  [g |-> off.g, a_pred |-> pred, a_explore |-> explore,
         decoder_states |-> states,
         critic_on |-> on.scores, critic_off |-> off.scores]

PointerNetDPG_make_graph ==
    /\ pc = "graph"
    /\ cfg.cls = "PointerNetDPG"
    /\ phases' = Append(phases, "graph")
    /\ LET r == PointerNetDPG_graph(G0, cfg)
       IN  /\ variables' = r.g.variables
           /\ scope_log' = r.g.log
           /\ value' = ExtendValue(value, r.g.variables)
           /\ IF r.g.err # NoError
                THEN /\ pc' = "failed"
                     /\ err' = r.g.err
                     /\ UNCHANGED <<a_pred, a_explore, decoder_states, critic_on,
                                    critic_off, q_targets, attrs, ops>>
                ELSE /\ pc' = "objectives"
                     /\ err' = err
                     /\ a_pred' = r.a_pred
                     /\ a_explore' = r.a_explore
                     /\ decoder_states' = r.decoder_states
                     /\ critic_on' = r.critic_on
                     /\ critic_off' = r.critic_off
                     /\ q_targets' = PointerNetDPG_make_q_targets(
                                         q_targets, "q_targets" \in attrs,
                                         cfg.seq_length)
                     /\ attrs' = attrs
                          \cup {"encoder_states", "decoder_inputs",
                                "decoder_states", "a_pred", "a_explore",
                                "critic_on", "critic_off"}
                          \cup (IF q_targets' # <<>> THEN {"q_targets"} ELSE {})
                     /\ placeholders' = placeholders
                          \cup {q_targets'[t] : t \in 1..Len(q_targets')}
                     /\ ops' = ops
                          \cup {r.a_pred[t] : t \in 1..Len(r.a_pred)}
                          \cup {r.a_explore[t] : t \in 1..Len(r.a_explore)}
                          \cup {Tensor("attn_states", 0)}
    /\ UNCHANGED <<cfg, critic_on_seq, critic_off_seq, param_vars, run_vars>>

(***************************************************************************)
(* The objectives phase.                                                   *)
(***************************************************************************)
\* "policy" in var.name, without the scope separator.
IsPolicyParam_NoSeparator(name) ==
    \E i \in 1..Len(name) : \E j \in 1..Len(name[i]) : name[i][j] = "policy"

\* "policy/" in var.name
IsPolicyParam(name) == NameContains(name, "policy")

\* The critic filter written with the policy's scope word.
IsCriticParam_PolicyWord(name) == NameContains(name, "policy")

\* "critic/" in var.name
IsCriticParam(name) == NameContains(name, "critic")

\* PointerNetDPG._policy_params: "encoder/" in var.name or "decoder/" in var.name
IsPointerNetPolicyParam(name) ==
    NameContains(name, "encoder") \/ NameContains(name, "decoder")

\* The handles the objectives read.
ObjectiveHandles == {"critic_on", "critic_off", "q_targets"}

DPG_make_objectives ==
    /\ pc = "objectives"
    /\ cfg.cls \in {"DPG", "RecurrentDPG"}
    /\ phases' = Append(phases, "objectives")
    /\ policy_params' = {v \in variables : IsPolicyParam(v)}
    /\ critic_params' = {v \in variables : IsCriticParam(v)}
    /\ IF ObjectiveHandles \subseteq attrs
         THEN /\ pc' = "updates"
              /\ err' = err
              /\ policy_objective' = critic_on
              /\ critic_objective' = Zip(critic_off, q_targets)
              /\ attrs' = attrs \cup {"policy_params", "critic_params",
                                      "policy_objective", "critic_objective"}
         ELSE /\ pc' = "failed"
              /\ err' = "TypeError"
              /\ attrs' = attrs \cup {"policy_params", "critic_params"}
              /\ UNCHANGED <<policy_objective, critic_objective>>
    /\ UNCHANGED <<cfg, placeholders, ops, graph_vars, q_targets, run_vars,
                   value>>

\* The batch-norm parameters join both lists.
PointerNetDPG_policy_params(vs, c) ==
    {v \in vs : IsPointerNetPolicyParam(v)}
    \cup (IF c.bn_actions THEN BnParams ELSE {})

PointerNetDPG_critic_params(vs, c) ==
    {v \in vs : IsCriticParam(v)}
    \cup (IF c.bn_actions THEN BnParams ELSE {})

PointerNetDPG_make_objectives ==
    /\ pc = "objectives"
    /\ cfg.cls = "PointerNetDPG"
    /\ phases' = Append(phases, "objectives")
    /\ policy_params' = PointerNetDPG_policy_params(variables, cfg)
    /\ critic_params' = PointerNetDPG_critic_params(variables, cfg)
    /\ IF ObjectiveHandles \subseteq attrs
         THEN /\ pc' = "updates"
              /\ err' = err
              /\ policy_objective' = critic_on
              /\ critic_objective' = Zip(critic_off, q_targets)
              /\ attrs' = attrs \cup {"policy_params", "critic_params",
                                      "policy_objective", "critic_objective"}
         ELSE /\ pc' = "failed"
              /\ err' = "TypeError"
              /\ attrs' = attrs \cup {"policy_params", "critic_params"}
              /\ UNCHANGED <<policy_objective, critic_objective>>
    /\ UNCHANGED <<cfg, placeholders, ops, graph_vars, q_targets, run_vars,
                   value>>

(***************************************************************************)
(* The updates phase and the tracking update.                              *)
(***************************************************************************)
\* util.track_model_updates: one assignment per variable of the main scope,
\* to the variable of the same name under the tracking scope.
TrackPairs(vs, main, track) ==
    {<<v, ReplacePrefix(v, main, track)>> : v \in {w \in vs : NameStartsWith(w, main)}}

\* A grouping that leaves the critic-side update out.
DPG_track_update_PolicyOnly(vs) ==
    TrackPairs(vs, Append(Name, PolicyScope), Append(Name, PolicyTrackScope))

\* DPG._make_updates: the policy-side and the critic-side updates, grouped.
DPG_track_update(vs) ==
    TrackPairs(vs, Append(Name, PolicyScope), Append(Name, PolicyTrackScope))
    \cup TrackPairs(vs, Append(Name, CriticScope), Append(Name, CriticTrackScope))

DPG_make_updates ==
    /\ pc = "updates"
    /\ cfg.cls = "DPG"
    /\ phases' = Append(phases, "updates")
    /\ LET pairs == DPG_track_update(variables)
       IN  IF \A p \in pairs : p[2] \in variables
             THEN /\ pc' = "done"
                  /\ err' = err
                  /\ track_update' = pairs
                  /\ attrs' = attrs \cup {"track_update"}
             ELSE /\ pc' = "failed"
                  /\ err' = "ValueError"
                  /\ UNCHANGED <<track_update, attrs>>
    /\ UNCHANGED <<cfg, placeholders, ops, graph_vars, q_targets, param_vars,
                   value, last_tau, n_grad, n_track>>

\* RecurrentDPG._make_updates: pass
RecurrentDPG_make_updates ==
    /\ pc = "updates"
    /\ cfg.cls = "RecurrentDPG"
    /\ phases' = Append(phases, "updates")
    /\ pc' = "done"
    /\ UNCHANGED <<cfg, err, placeholders, ops, attrs, graph_vars, q_targets,
                   param_vars, run_vars, value>>

\* PointerNetDPG._make_updates: pass
PointerNetDPG_make_updates ==
    /\ pc = "updates"
    /\ cfg.cls = "PointerNetDPG"
    /\ phases' = Append(phases, "updates")
    /\ pc' = "done"
    /\ UNCHANGED <<cfg, err, placeholders, ops, attrs, graph_vars, q_targets,
                   param_vars, run_vars, value>>

(***************************************************************************)
(* The client: gradient steps on the two objectives, and executions of     *)
(* track_update with a fed tau.                                            *)
(***************************************************************************)
TauSet == {<<1, 2>>, ROne}

Deltas == {<<1, 1>>, <<0 - 1, 1>>}

\* tracked <- tracked + tau * (live - tracked), for every pair of the op
TrackAssign(val, pairs, tau) ==
    [v \in DOMAIN val |->
        IF \E p \in pairs : p[2] = v
          THEN LET live == (CHOOSE p \in pairs : p[2] = v)[1]
               IN  RAdd(val[v], RMul(tau, RSub(val[live], val[v])))
          ELSE val[v]]

TrackUpdate ==
    /\ pc = "done"
    /\ "track_update" \in attrs
    /\ n_track < MaxTrackSteps
    /\ \E tau \in TauSet :
         /\ value' = TrackAssign(value, track_update, tau)
         /\ last_tau' = tau
    /\ n_track' = n_track + 1
    /\ UNCHANGED <<cfg, pc, err, phases, placeholders, ops, attrs, graph_vars,
                   q_targets, param_vars, track_update, n_grad>>

\* An optimizer step of the client on one objective moves the parameters of
\* that objective's list, and nothing else.
GradAssign(val, params, delta) ==
    [v \in DOMAIN val |-> IF v \in params THEN RAdd(val[v], delta) ELSE val[v]]

GradStep ==
    /\ pc = "done"
    /\ n_grad < MaxGradSteps
    /\ \E params \in {policy_params, critic_params}, delta \in Deltas :
         value' = GradAssign(value, params, delta)
    /\ n_grad' = n_grad + 1
    /\ UNCHANGED <<cfg, pc, err, phases, placeholders, ops, attrs, graph_vars,
                   q_targets, param_vars, track_update, last_tau, n_track>>

Next ==
    \/ Construct
    \/ DPG_make_params
    \/ PointerNetDPG_make_params
    \/ DPG_make_inputs
    \/ RecurrentDPG_make_inputs
    \/ PointerNetDPG_make_inputs
    \/ DPG_make_graph
    \/ RecurrentDPG_make_graph
    \/ PointerNetDPG_make_graph
    \/ DPG_make_objectives
    \/ PointerNetDPG_make_objectives
    \/ DPG_make_updates
    \/ RecurrentDPG_make_updates
    \/ PointerNetDPG_make_updates
    \/ GradStep
    \/ TrackUpdate

Spec == Init /\ [][Next]_vars

(***************************************************************************)
(* Definitions shared by the properties.                                   *)
(***************************************************************************)
Range(f) == {f[i] : i \in DOMAIN f}

\* The parameters of the tracking networks of the base DPG, and the live
\* parameter each one shadows.
TrackedPolicyParams ==
    {v \in variables : NameStartsWith(v, Append(Name, PolicyTrackScope))}

TrackedCriticParams ==
    {v \in variables : NameStartsWith(v, Append(Name, CriticTrackScope))}

TrackedParams == TrackedPolicyParams \cup TrackedCriticParams

LiveOf(v) ==
    IF NameStartsWith(v, Append(Name, PolicyTrackScope))
      THEN ReplacePrefix(v, Append(Name, PolicyTrackScope), Append(Name, PolicyScope))
      ELSE ReplacePrefix(v, Append(Name, CriticTrackScope), Append(Name, CriticScope))

LiveParams == variables \ TrackedParams

Distance(val, v) == RAbs(RSub(val[LiveOf(v)], val[v]))

Constructed == pc = "done"

(***************************************************************************)
(* C1: in a base DPG, every execution of track_update sets each tracked    *)
(* policy parameter and each tracked critic parameter to                   *)
(* tracked + tau * (live - tracked), for the fed tau in (0, 1]; its        *)
(* distance to the live parameter becomes (1 - tau) times what it was and  *)
(* does not increase.                                                      *)
(***************************************************************************)
C1_TrackStep ==
    (cfg.cls = "DPG" /\ n_track' = n_track + 1) =>
        /\ RLeq(last_tau', ROne) /\ ~RLeq(last_tau', RZero)
        /\ TrackedPolicyParams # {} /\ TrackedCriticParams # {}
        /\ \A v \in TrackedParams :
             LET before == Distance(value, v)
                 after == Distance(value', v)
             IN  /\ value'[v] = RAdd(value[v],
                                     RMul(last_tau', RSub(value[LiveOf(v)], value[v])))
                 /\ after = RMul(RSub(ROne, last_tau'), before)
                 /\ RLeq(after, before)

C1_TrackingContracts == [][C1_TrackStep]_vars

\* Two executions with tau < 1 have brought a tracked critic parameter
\* part of the way to a live parameter that a gradient step had moved.
C1_Witness ==
    /\ cfg.cls = "DPG"
    /\ n_track = 2
    /\ \E v \in TrackedCriticParams :
         /\ value[v] # RZero
         /\ value[v] # value[LiveOf(v)]
         /\ value[LiveOf(v)] # RZero

(***************************************************************************)
(* C2 as stated: in every constructed instance policy_params and           *)
(* critic_params have no common member.                                    *)
(***************************************************************************)
C2_Original ==
    "critic_params" \in attrs => policy_params \cap critic_params = {}

(***************************************************************************)
(* C2 amended: policy_params and critic_params are disjoint in every       *)
(* constructed DPG, RecurrentDPG and PointerNetDPG without bn_actions;     *)
(* with bn_actions their common members are exactly the two batch-norm     *)
(* parameters.                                                             *)
(***************************************************************************)
C2_DisjointUpToBatchNorm ==
    "critic_params" \in attrs =>
        /\ policy_params # {}
        /\ critic_params # {}
        /\ policy_params \cap critic_params
             = IF cfg.cls = "PointerNetDPG" /\ cfg.bn_actions THEN BnParams ELSE {}

C2_Witness ==
    /\ Constructed
    /\ cfg.cls = "PointerNetDPG"
    /\ cfg.bn_actions
    /\ BnParams \subseteq policy_params \cap critic_params
    /\ policy_params # critic_params

(***************************************************************************)
(* C3: a PointerNetDPG whose state_dim is not twice policy_dims[0] fails   *)
(* with an assertion error before any phase has run and before any         *)
(* parameter, placeholder or graph node exists; with state_dim equal to    *)
(* twice policy_dims[0] the assertion does not fail.                       *)
(***************************************************************************)
C3_AssertionBeforeConstruction ==
    /\ (cfg.cls = "PointerNetDPG"
          /\ cfg.state_dim # 2 * cfg.policy_dims[1]
          /\ pc # "new")
         => (pc = "failed" /\ err = "AssertionError")
    /\ err = "AssertionError" =>
         /\ cfg.cls = "PointerNetDPG"
         /\ phases = <<>>
         /\ variables = {}
         /\ placeholders = {}
         /\ ops = {}
         /\ attrs = {}
    /\ (cfg.cls = "PointerNetDPG" /\ cfg.state_dim = 2 * cfg.policy_dims[1])
         => err # "AssertionError"

C3_Witness ==
    /\ cfg.cls = "PointerNetDPG"
    /\ cfg.state_dim = 2 * cfg.policy_dims[1] + 1
    /\ pc = "failed"
    /\ err = "AssertionError"

(***************************************************************************)
(* C4: a RecurrentDPG whose _loop_function is not overridden never gets    *)
(* past the graph phase: the phase fails with a not-implemented error, and *)
(* the objectives and updates phases never run.                            *)
(***************************************************************************)
C4_AbstractLoopFunctionFails ==
    (cfg.cls = "RecurrentDPG" /\ ~cfg.loop_overridden) =>
        /\ pc \in {"new", "params", "inputs", "graph", "failed"}
        /\ "objectives" \notin Range(phases)
        /\ "updates" \notin Range(phases)
        /\ "graph" \in Range(phases) =>
             (pc = "failed" /\ err = "NotImplementedError" /\ variables = {})
        /\ pc = "failed" => phases = <<"params", "inputs", "graph">>

C4_Witness ==
    /\ cfg.cls = "RecurrentDPG"
    /\ ~cfg.loop_overridden
    /\ pc = "failed"
    /\ err = "NotImplementedError"

\* The critic evaluations of the live critic (scope <name>/critic).
CriticEvaluations ==
    SelectSeq(scope_log,
              LAMBDA e : e.net = "critic" /\ e.scope = Append(Name, CriticScope))

\* The evaluations of the live policy network (not the tracking copy).
PolicyEvaluations ==
    SelectSeq(scope_log, LAMBDA e : e.net = "policy" /\ e.site # "track")

GraphBuilt == pc \in {"objectives", "updates", "done"}

(***************************************************************************)
(* C5: a RecurrentDPG rollout with seq_length = T >= 1 has exactly T       *)
(* decoder steps; with the initial state dropped, decoder_states, a_pred   *)
(* and a_explore all have length T, and the on-policy and the exploratory  *)
(* critic each produce T values, the t-th on the t-th decoder state and    *)
(* the t-th action.                                                        *)
(***************************************************************************)
C5_RolloutLength ==
    (cfg.cls = "RecurrentDPG" /\ GraphBuilt) =>
        LET T == cfg.seq_length
        IN  /\ T >= 1
            /\ Len(SelectSeq(scope_log,
                   LAMBDA e : e.net = "policy" /\ e.site = "rollout")) = T
            /\ Len(a_pred) = T
            /\ Len(a_explore) = T
            /\ Len(decoder_states) = T
            /\ Len(critic_on_seq) = T
            /\ Len(critic_off_seq) = T
            /\ \A t \in 1..T :
                 /\ decoder_states[t] = Tensor("dec_state", t)
                 /\ a_pred[t] = Tensor("a_pred", t)
                 /\ a_explore[t] = Tensor("a_explore", t)
                 /\ critic_on_seq[t] = <<decoder_states[t], a_pred[t]>>
                 /\ critic_off_seq[t] = <<decoder_states[t], a_explore[t]>>

C5_Witness ==
    /\ cfg.cls = "RecurrentDPG"
    /\ Constructed
    /\ cfg.seq_length = MaxSeqLength
    /\ Len(critic_off_seq) = MaxSeqLength
    /\ Len(critic_off_seq) > 1

(***************************************************************************)
(* C6: over all critic evaluations of one instance, the critic parameters  *)
(* are created exactly once, by the first timestep of the on-policy        *)
(* evaluation; every later evaluation reuses them, none asks for reuse     *)
(* before they exist and none creates them again.                          *)
(***************************************************************************)
C6_CriticCreatedOnce ==
    /\ err # "ValueError"
    /\ \A i \in 1..Len(CriticEvaluations) :
         LET e == CriticEvaluations[i]
         IN  /\ e.created <=> i = 1
             /\ e.reuse <=> i > 1
             /\ i = 1 => (e.site = "on" /\ e.t = 1)
    /\ GraphBuilt =>
         Len(CriticEvaluations)
           = IF cfg.cls = "DPG" THEN 2
             ELSE IF cfg.cls = "RecurrentDPG" THEN 2 * cfg.seq_length + 2
             ELSE 2 * cfg.seq_length

C6_Witness ==
    /\ cfg.cls = "RecurrentDPG"
    /\ Constructed
    /\ cfg.seq_length > 1
    /\ Len(CriticEvaluations) = 2 * cfg.seq_length + 2
    /\ CriticEvaluations[Len(CriticEvaluations)].site = "ind_off"

(***************************************************************************)
(* C7: in a base DPG driven by gradient steps and track_update executions  *)
(* in any order, no tracked parameter is in policy_params or               *)
(* critic_params, a gradient step changes no tracked parameter, and a      *)
(* track_update changes no live parameter.                                 *)
(***************************************************************************)
C7_TrackedOutsideParams ==
    (cfg.cls = "DPG" /\ Constructed) =>
        /\ TrackedPolicyParams # {}
        /\ TrackedCriticParams # {}
        /\ TrackedParams \cap (policy_params \cup critic_params) = {}

C7_Frame ==
    (cfg.cls = "DPG" /\ Constructed) =>
        /\ n_grad' # n_grad =>
             /\ \A v \in TrackedParams : value'[v] = value[v]
             /\ \E v \in LiveParams : value'[v] # value[v]
        /\ n_track' # n_track =>
             \A v \in LiveParams : value'[v] = value[v]

C8_Original ==
    Constructed =>
        /\ Cardinality({i \in 1..Len(PolicyEvaluations) :
                           PolicyEvaluations[i].created}) <= 1
        /\ \A i, j \in 1..Len(PolicyEvaluations) :
             PolicyEvaluations[i].scope = PolicyEvaluations[j].scope

(***************************************************************************)
(* C9 as stated: in every constructed instance each variable is in         *)
(* policy_params, in critic_params, a tracked-copy parameter or a          *)
(* batch-norm parameter.                                                   *)
(***************************************************************************)
C9_Original ==
    Constructed =>
        variables \subseteq
            (policy_params \cup critic_params \cup TrackedParams \cup BnParams)

IsPrefix(s, t) == Len(s) <= Len(t) /\ s = SubSeq(t, 1, Len(s))

(***************************************************************************)
(* C10: construction runs params, inputs, graph, objectives, updates in    *)
(* that order, each once; when the objectives phase runs, critic_on,       *)
(* critic_off and q_targets are defined, and a PointerNetDPG that was      *)
(* given no q_targets holds a list of seq_length targets made at the end   *)
(* of the graph phase.                                                     *)
(***************************************************************************)
C10_PhaseOrder ==
    /\ IsPrefix(phases, PhaseOrder)
    /\ Constructed => phases = PhaseOrder
    /\ pc \in {"params", "inputs", "graph", "objectives", "updates"} =>
         pc = PhaseOrder[Len(phases) + 1]
    /\ err # "TypeError"
    /\ pc = "objectives" =>
         /\ ObjectiveHandles \subseteq attrs
         /\ critic_on # <<>>
         /\ critic_off # <<>>
         /\ q_targets # <<>>
         /\ (cfg.cls = "PointerNetDPG" /\ ~cfg.q_targets_given) =>
              q_targets = TensorList("q_targets", cfg.seq_length)
    /\ (cfg.cls = "PointerNetDPG" /\ ~cfg.q_targets_given /\ pc = "graph") =>
         "q_targets" \notin attrs

C10_Witness ==
    /\ cfg.cls = "PointerNetDPG"
    /\ ~cfg.q_targets_given
    /\ pc = "objectives"
    /\ Len(q_targets) = cfg.seq_length
    /\ cfg.seq_length > 1

\* The critic values an objective is computed from.
PolicyObjectiveValues == Range(policy_objective)

CriticObjectiveValues == {critic_objective[i][1] : i \in DOMAIN critic_objective}

(***************************************************************************)
(* C11: in a RecurrentDPG, whatever the seq_length, policy_objective is    *)
(* built from the single-step critic_on alone and critic_objective from    *)
(* the single-step critic_off (fed by decoder_state_ind) and q_targets     *)
(* alone; no value of critic_on_seq or critic_off_seq enters either        *)
(* objective.                                                              *)
(***************************************************************************)
C11_ObjectivesFromSingleStep ==
    (cfg.cls = "RecurrentDPG" /\ "policy_objective" \in attrs) =>
        /\ Len(critic_on_seq) = cfg.seq_length
        /\ Len(critic_off_seq) = cfg.seq_length
        /\ policy_objective = critic_on
        /\ PolicyObjectiveValues
             = {<<Tensor("dec_state_ind", 0), Tensor("a_pred_ind", 0)>>}
        /\ CriticObjectiveValues
             = {<<Tensor("dec_state_ind", 0), Tensor("a_explore", 0)>>}
        /\ CriticObjectiveValues = Range(critic_off)
        /\ {critic_objective[i][2] : i \in DOMAIN critic_objective}
             = Range(q_targets)
        /\ (PolicyObjectiveValues \cup CriticObjectiveValues)
             \cap (Range(critic_on_seq) \cup Range(critic_off_seq)) = {}

C11_Witness ==
    /\ cfg.cls = "RecurrentDPG"
    /\ Constructed
    /\ cfg.seq_length = MaxSeqLength
    /\ Len(critic_on_seq) > 1
    /\ Len(policy_objective) = 1
    /\ Len(critic_objective) = 1

====
